---- MODULE Spec2Model ----
(***************************************************************************)
(* Model of the sketchpad of src/src/main.ts: the history of display       *)
(* commands (strokes / redoStack), the drag flag, the tool state, the tool *)
(* preview and the undo/redo button enablement, driven by the canvas and   *)
(* button event handlers.  Commands are objects with identity: `cmds` is   *)
(* the heap (index = object identity, value = the object's fields) and     *)
(* `strokes` / `redoStack` hold references into it, as the JS arrays do.    *)
(***************************************************************************)
EXTENDS Integers, Sequences, FiniteSets, TLC

\* ---------------------------------------------------------------- bounds
\* at most MaxCmds commands are ever created (mousedown events) in a run
MaxCmds == 3
\* at most MaxSamples drag samples are appended to strokes in a run
MaxSamples == 1

\* ------------------------------------------------------ program constants
THIN == 3
THICK == 10
STICKER_FONT_PX == 32

\* ---------------------------------------------------------------- inputs
\* canvas-local positions (getCanvasPosition) of the mousedown events,
\* of the mousemove events during a drag, and of those while hovering
DownPoints == {<<10, 10>>}
MovePoints == {<<20, 20>>}
HoverPoints == {<<10, 10>>}
\* values Math.floor(Math.random() * 360) takes in generateRandomColor
Hues == {0}
\* sticker buttons pressed
StickerInputs == {"sparkles"}
\* texts prompt() returns to the custom sticker button; "null" is Cancel
PromptTexts == {"null", "sparkles"}

VARIABLES
  strokes,            \* const strokes: DisplayCommand[]  (references into cmds)
  redoStack,          \* const redoStack: DisplayCommand[]
  cmds,               \* the DisplayCommand objects created so far, by identity
  isDrawing,          \* let isDrawing
  preview,            \* let preview: ToolPreview | null
  currentToolMode,    \* let currentToolMode: ToolMode
  currentThickness,   \* let currentThickness
  currentMarkerColor, \* let currentMarkerColor
  currentSticker,     \* let currentSticker
  stickers,           \* const stickers (one sticker button per element)
  undoDisabled,       \* undoButton.disabled
  redoDisabled,       \* redoButton.disabled
  frame               \* what the last render drew on the canvas (ctx)

hist == <<strokes, redoStack, cmds>>
tool == <<currentToolMode, currentThickness, currentMarkerColor, currentSticker, stickers>>
buttons == <<undoDisabled, redoDisabled>>
vars == <<strokes, redoStack, cmds, isDrawing, preview, currentToolMode,
          currentThickness, currentMarkerColor, currentSticker, stickers,
          undoDisabled, redoDisabled, frame>>

\* ------------------------------------------------------------ data model
\* "#000000" and `hsl(${hue}, 70%, 50%)`, as comparable values
Black == <<"hex", 0, 0, 0>>

generateRandomColor(hue) == <<"hsl", hue, 70, 50>>

\* preview = null
NoPreview == [kind |-> "null"]

\* new MarkerStroke(start, thickness, color): points = [start]
NewMarkerStroke(start, thickness, color) ==
  [kind |-> "MarkerStroke", points |-> <<start>>, thickness |-> thickness, color |-> color]

\* drag with points.unshift(next) in place of push
drag_unshift(c, next) == [c EXCEPT !.points = <<next>> \o @]

\* MarkerStroke.drag(next): points.push(next)
drag(c, next) == [c EXCEPT !.points = Append(@, next)]

\* new StickerCommand(center, emoji, fontPx)
NewStickerCommand(center, emoji, fontPx) ==
  [kind |-> "StickerCommand", center |-> center, emoji |-> emoji, fontPx |-> fontPx]

\* StickerCommand.setPosition(center)
setPosition(c, center) == [c EXCEPT !.center = center]

\* new MarkerPreview(center, thickness, color)
NewMarkerPreview(center, thickness, color) ==
  [kind |-> "MarkerPreview", center |-> center, thickness |-> thickness, color |-> color]

\* new StickerPreview(center, emoji, fontPx)
NewStickerPreview(center, emoji, fontPx) ==
  [kind |-> "StickerPreview", center |-> center, emoji |-> emoji, fontPx |-> fontPx]

\* a canvas coordinate in hundredths of a pixel; v + 0.01 is Coord(v) + 1
Coord(v) == 100 * v

\* ctx.lineTo(p.x, p.y) for each p of ps, in order
LineTos(ps) == [j \in 1..Len(ps) |-> [op |-> "lineTo", x |-> Coord(ps[j][1]), y |-> Coord(ps[j][2])]]

\* MarkerStroke.display without the single-point branch
MarkerStrokeDisplay_noDot(c) ==
  IF Len(c.points) = 0 THEN <<>>
  ELSE LET first == Head(c.points)
           rest == Tail(c.points)
       IN <<[op |-> "lineWidth", value |-> c.thickness],
            [op |-> "lineCap", value |-> "round"],
            [op |-> "strokeStyle", value |-> c.color],
            [op |-> "beginPath"],
            [op |-> "moveTo", x |-> Coord(first[1]), y |-> Coord(first[2])]>>
          \o LineTos(rest)
          \o <<[op |-> "stroke"]>>

\* MarkerStroke.display: the calls it makes on ctx, in order
MarkerStrokeDisplay(c) ==
  IF Len(c.points) = 0 THEN <<>>
  ELSE LET first == Head(c.points)
           rest == Tail(c.points)
       IN <<[op |-> "lineWidth", value |-> c.thickness],
            [op |-> "lineCap", value |-> "round"],
            [op |-> "strokeStyle", value |-> c.color],
            [op |-> "beginPath"],
            [op |-> "moveTo", x |-> Coord(first[1]), y |-> Coord(first[2])]>>
          \o LineTos(rest)
          \o (IF Len(c.points) = 1
                THEN <<[op |-> "lineTo", x |-> Coord(first[1]) + 1, y |-> Coord(first[2]) + 1]>>
                ELSE <<>>)
          \o <<[op |-> "stroke"]>>

\* StickerCommand.display: the calls it makes on ctx, in order
StickerCommandDisplay(c) ==
  <<[op |-> "save"],
    [op |-> "font", px |-> c.fontPx],
    [op |-> "textAlign", value |-> "center"],
    [op |-> "textBaseline", value |-> "middle"],
    [op |-> "fillText", text |-> c.emoji, x |-> Coord(c.center[1]), y |-> Coord(c.center[2])],
    [op |-> "restore"]>>

\* command.display(ctx), dispatched on the command's class
display(c) ==
  IF c.kind = "MarkerStroke" THEN MarkerStrokeDisplay(c) ELSE StickerCommandDisplay(c)

\* stickers.includes(text)
includes(seq, x) == \E i \in 1..Len(seq) : seq[i] = x

\* the elements of an array, as a set
Elems(seq) == {seq[i] : i \in 1..Len(seq)}

\* a DisplayCommand no array refers to any more: the object is garbage
Freed == [kind |-> "freed"]

\* the heap c once only the commands of the arrays s and r are referenced
collect(c, s, r) ==
  [i \in 1..Len(c) |-> IF i \in Elems(s) \cup Elems(r) THEN c[i] ELSE Freed]

\* the drag samples the strokes of heap c hold (points beyond the first)
RECURSIVE Samples(_)
Samples(c) ==
  IF c = <<>> THEN 0
  ELSE (IF Head(c).kind = "MarkerStroke" THEN Len(Head(c).points) - 1 ELSE 0)
       + Samples(Tail(c))

\* Array.prototype.pop: the array without its last element
PopRest(seq) == SubSeq(seq, 1, Len(seq) - 1)

\* ------------------------------------------------------------------ Init
Init ==
  /\ strokes = <<>>
  /\ redoStack = <<>>
  /\ cmds = <<>>
  /\ isDrawing = FALSE
  /\ preview = NoPreview
  /\ currentToolMode = "marker"
  /\ currentThickness = THIN
  /\ currentMarkerColor = Black
  /\ currentSticker = "sparkles"
  /\ stickers = <<"palette", "sparkles", "dizzy", "party">>
  \* document.createElement("button"): disabled is false until the first render
  /\ undoDisabled = FALSE
  /\ redoDisabled = FALSE
  \* nothing renders at load: the canvas is as created
  /\ frame = <<>>

\* ---------------------------------------------------------------- render
\* updateButtonStates, on the arrays as the handler leaves them
updateButtonStates(s, r) ==
  /\ undoDisabled' = (Len(s) = 0)
  /\ redoDisabled' = (Len(r) = 0)

\* render iterating strokes from the newest command to the oldest
renderCalls_newestFirst(s, c, d, pv) ==
  <<[op |-> "clearRect"]>>
  \o [k \in 1..Len(s) |-> [op |-> "display", cmd |-> c[s[Len(s) + 1 - k]]]]
  \o (IF ~d /\ pv # NoPreview THEN <<[op |-> "draw", preview |-> pv]>> ELSE <<>>)

\* the calls render makes on ctx, in order: clearRect, command.display for
\* each command of strokes s (heap c), and preview.draw when not drawing (d)
\* and a preview pv exists
renderCalls(s, c, d, pv) ==
  <<[op |-> "clearRect"]>>
  \o [k \in 1..Len(s) |-> [op |-> "display", cmd |-> c[s[k]]]]
  \o (IF ~d /\ pv # NoPreview THEN <<[op |-> "draw", preview |-> pv]>> ELSE <<>>)

\* render (the listener of "drawing-changed" and "tool-moved", dispatched
\* synchronously), run on the state the handler has reached: s and r are
\* strokes and redoStack at that point
render(s, r) ==
  /\ frame' = renderCalls(s, cmds', isDrawing', preview')
  /\ updateButtonStates(s, r)

\* --------------------------------------------------------------- history
\* the history as one value: the two arrays and the objects they refer to
History == [strokes |-> strokes, redoStack |-> redoStack, cmds |-> cmds]

\* the arrays and their commands become those of h
SetHistory(h) ==
  /\ strokes' = h.strokes
  /\ redoStack' = h.redoStack
  /\ cmds' = h.cmds

\* ------------------------------------------------------- canvas handlers
\* mousedown without `redoStack.length = 0`
mousedown_keepRedo(p) ==
  /\ Len(cmds) < MaxCmds
  /\ isDrawing' = TRUE
  /\ redoStack' = redoStack
  /\ preview' = NoPreview
  /\ strokes' = Append(strokes, Len(cmds) + 1)
  /\ cmds' = collect(Append(cmds,
                            IF currentToolMode = "marker"
                              THEN NewMarkerStroke(p, currentThickness, currentMarkerColor)
                              ELSE NewStickerCommand(p, currentSticker, STICKER_FONT_PX)),
                     strokes', redoStack')
  /\ UNCHANGED tool
  /\ render(strokes', redoStack')

\* mousedown constructing every command as a thin black stroke, whatever the
\* tool state (the marker-only `new MarkerStroke(startPoint)`)
newCommand_fixedTool(p) == NewMarkerStroke(p, THIN, Black)

\* the command mousedown constructs at p from the current tool state
newCommand(p) ==
  IF currentToolMode = "marker"
    THEN NewMarkerStroke(p, currentThickness, currentMarkerColor)
    ELSE NewStickerCommand(p, currentSticker, STICKER_FONT_PX)

\* mousedown with strokes.unshift(stroke) in place of push
beginStep_unshift(h, p) ==
  LET s == <<Len(h.cmds) + 1>> \o h.strokes
  IN [strokes |-> s,
      redoStack |-> <<>>,
      cmds |-> collect(Append(h.cmds, newCommand(p)), s, <<>>)]

\* mousedown on history h: redoStack emptied, the new command pushed
beginStep(h, p) ==
  LET s == Append(h.strokes, Len(h.cmds) + 1)
  IN [strokes |-> s,
      redoStack |-> <<>>,
      cmds |-> collect(Append(h.cmds, newCommand(p)), s, <<>>)]

\* mousedown without `preview = null`
mousedown_keepPreview(p) ==
  /\ Len(cmds) < MaxCmds
  /\ isDrawing' = TRUE
  /\ SetHistory(beginStep(History, p))
  /\ UNCHANGED <<preview, tool>>
  /\ render(strokes', redoStack')

\* mousedown drawing a fresh random color for every command
mousedown_newColor(p) ==
  /\ Len(cmds) < MaxCmds
  /\ isDrawing' = TRUE
  /\ preview' = NoPreview
  /\ SetHistory(beginStep(History, p))
  /\ \E hue \in Hues : currentMarkerColor' = generateRandomColor(hue)
  /\ UNCHANGED <<currentToolMode, currentThickness, currentSticker, stickers>>
  /\ render(strokes', redoStack')

\* canvas "mousedown"
mousedown(p) ==
  /\ Len(cmds) < MaxCmds
  /\ isDrawing' = TRUE
  /\ preview' = NoPreview
  /\ SetHistory(beginStep(History, p))
  /\ UNCHANGED tool
  /\ render(strokes', redoStack')

\* mouseup with the `preview = null` of mouseleave
mouseup_discardPreview ==
  /\ isDrawing' = FALSE
  /\ preview' = NoPreview
  /\ UNCHANGED <<hist, tool>>
  /\ render(strokes, redoStack)

\* canvas "mouseup"
mouseup ==
  /\ isDrawing' = FALSE
  /\ UNCHANGED <<hist, preview, tool>>
  /\ render(strokes, redoStack)

\* mouseleave dispatching tool-moved before `preview = null`
mouseleave_renderFirst ==
  /\ isDrawing' = FALSE
  /\ preview' = NoPreview
  /\ UNCHANGED <<hist, tool>>
  /\ frame' = renderCalls(strokes, cmds, FALSE, preview)
  /\ updateButtonStates(strokes, redoStack)

\* mouseleave without `preview = null`
mouseleave_keepPreview ==
  /\ isDrawing' = FALSE
  /\ UNCHANGED <<hist, preview, tool>>
  /\ render(strokes, redoStack)

\* canvas "mouseleave"
mouseleave ==
  /\ isDrawing' = FALSE
  /\ preview' = NoPreview
  /\ UNCHANGED <<hist, tool>>
  /\ render(strokes, redoStack)

\* canvas "mousemove", isDrawing branch: the command the handler mutates is
\* strokes[strokes.length - 1] (undefined, 0, when strokes is empty), and
\* only when its class matches the current tool mode
dragTargetIn(h) ==
  IF Len(h.strokes) = 0 THEN 0
  ELSE LET last == h.strokes[Len(h.strokes)] IN
       IF currentToolMode = "marker"
         THEN (IF h.cmds[last].kind = "MarkerStroke" THEN last ELSE 0)
         ELSE (IF h.cmds[last].kind = "StickerCommand" THEN last ELSE 0)

dragTarget == dragTargetIn(History)

\* a drag sample p on history h: lastCommand.drag(p) or .setPosition(p)
extendStep(h, p) ==
  LET t == dragTargetIn(h) IN
    IF t = 0 THEN h
    ELSE IF h.cmds[t].kind = "MarkerStroke"
      THEN [h EXCEPT !.cmds[t] = drag(@, p)]
      ELSE [h EXCEPT !.cmds[t] = setPosition(@, p)]

\* mousemove calling lastCommand.drag(point) without the instanceof tests:
\* a TypeError when strokes is empty, so the handler does not complete
mousemoveDrawing_deref(p) ==
  /\ isDrawing
  /\ Len(strokes) > 0
  /\ (dragTarget # 0 /\ cmds[dragTarget].kind = "MarkerStroke") => Samples(cmds) < MaxSamples
  /\ SetHistory(extendStep(History, p))
  /\ UNCHANGED <<isDrawing, preview, tool>>
  /\ render(strokes, redoStack)

mousemoveDrawing(p) ==
  /\ isDrawing
  \* bound: strokes take no sample beyond MaxSamples
  /\ (dragTarget # 0 /\ cmds[dragTarget].kind = "MarkerStroke") => Samples(cmds) < MaxSamples
  /\ SetHistory(extendStep(History, p))
  /\ UNCHANGED <<isDrawing, preview, tool>>
  /\ render(strokes, redoStack)

\* canvas "mousemove", hover branch: build or refresh the preview
mousemoveHover(p) ==
  /\ ~isDrawing
  /\ preview' =
       IF currentToolMode = "marker"
         THEN (IF preview.kind # "MarkerPreview"
                 THEN NewMarkerPreview(p, currentThickness, currentMarkerColor)
                 ELSE [preview EXCEPT !.center = p,
                                      !.thickness = currentThickness,
                                      !.color = currentMarkerColor])
         ELSE (IF preview.kind # "StickerPreview"
                 THEN NewStickerPreview(p, currentSticker, STICKER_FONT_PX)
                 ELSE [preview EXCEPT !.center = p,
                                      !.emoji = currentSticker,
                                      !.fontPx = STICKER_FONT_PX])
  /\ UNCHANGED <<hist, isDrawing, tool>>
  /\ render(strokes, redoStack)

\* ------------------------------------------------------- history buttons
\* undo with redoStack.unshift(undone) in place of push
undoStep_unshift(h) ==
  IF Len(h.strokes) = 0 THEN h
  ELSE [h EXCEPT !.strokes = PopRest(@),
                 !.redoStack = <<h.strokes[Len(h.strokes)]>> \o @]

\* undo reading strokes[strokes.length - 1] in place of strokes.pop()
undoStep_noPop(h) ==
  IF Len(h.strokes) = 0 THEN h
  ELSE [h EXCEPT !.redoStack = Append(@, h.strokes[Len(h.strokes)])]

\* undoButton "click": strokes.pop() pushed onto redoStack, unless empty
undoStep(h) ==
  IF Len(h.strokes) = 0 THEN h
  ELSE [h EXCEPT !.strokes = PopRest(@),
                 !.redoStack = Append(@, h.strokes[Len(h.strokes)])]

\* redo without the emptiness check: pop() of an empty array is undefined (0)
redoStep_noGuard(h) ==
  IF Len(h.redoStack) = 0 THEN [h EXCEPT !.strokes = Append(@, 0)]
  ELSE [h EXCEPT !.redoStack = PopRest(@),
                 !.strokes = Append(@, h.redoStack[Len(h.redoStack)])]

\* redo reading redoStack[redoStack.length - 1] in place of redoStack.pop()
redoStep_noPop(h) ==
  IF Len(h.redoStack) = 0 THEN h
  ELSE [h EXCEPT !.strokes = Append(@, h.redoStack[Len(h.redoStack)])]

\* redo with redoStack.shift() in place of pop()
redoStep_shift(h) ==
  IF Len(h.redoStack) = 0 THEN h
  ELSE [h EXCEPT !.redoStack = Tail(@),
                 !.strokes = Append(@, Head(h.redoStack))]

\* redoButton "click": redoStack.pop() pushed onto strokes, unless empty
redoStep(h) ==
  IF Len(h.redoStack) = 0 THEN h
  ELSE [h EXCEPT !.redoStack = PopRest(@),
                 !.strokes = Append(@, h.redoStack[Len(h.redoStack)])]

\* The click listeners are modelled in every state, whether or not the
\* control is shown disabled: the listener's own emptiness check is what
\* the code relies on.
undoButtonClick ==
  /\ SetHistory(undoStep(History))
  /\ UNCHANGED <<isDrawing, preview, tool>>
  \* the early return skips dispatchDrawingChanged
  /\ IF Len(strokes) = 0 THEN UNCHANGED <<buttons, frame>>
                          ELSE render(strokes', redoStack')

redoButtonClick ==
  /\ SetHistory(redoStep(History))
  /\ UNCHANGED <<isDrawing, preview, tool>>
  /\ IF Len(redoStack) = 0 THEN UNCHANGED <<buttons, frame>>
                            ELSE render(strokes', redoStack')

\* clear without `redoStack.length = 0`
clearButtonClick_strokesOnly ==
  /\ strokes' = <<>>
  /\ redoStack' = redoStack
  /\ cmds' = collect(cmds, strokes', redoStack')
  /\ UNCHANGED <<isDrawing, preview, tool>>
  /\ render(strokes', redoStack')

\* clear without dispatchDrawingChanged
clearButtonClick_noRender ==
  /\ strokes' = <<>>
  /\ redoStack' = <<>>
  /\ cmds' = collect(cmds, strokes', redoStack')
  /\ UNCHANGED <<buttons, frame, isDrawing, preview, tool>>

\* clearButton "click": both arrays truncated to length 0
clearButtonClick ==
  /\ strokes' = <<>>
  /\ redoStack' = <<>>
  /\ cmds' = collect(cmds, strokes', redoStack')
  /\ UNCHANGED <<isDrawing, preview, tool>>
  /\ render(strokes', redoStack')

\* ---------------------------------------------------------- tool buttons
\* thinToolButton "click"
thinToolButtonClick(hue) ==
  /\ currentToolMode' = "marker"
  /\ currentThickness' = THIN
  /\ currentMarkerColor' = generateRandomColor(hue)
  /\ preview' = IF preview.kind = "MarkerPreview"
                  THEN [preview EXCEPT !.thickness = currentThickness',
                                       !.color = currentMarkerColor']
                  ELSE preview
  /\ UNCHANGED <<hist, isDrawing, currentSticker, stickers>>
  /\ render(strokes, redoStack)

\* thickToolButton "click"
thickToolButtonClick(hue) ==
  /\ currentToolMode' = "marker"
  /\ currentThickness' = THICK
  /\ currentMarkerColor' = generateRandomColor(hue)
  /\ preview' = IF preview.kind = "MarkerPreview"
                  THEN [preview EXCEPT !.thickness = currentThickness',
                                       !.color = currentMarkerColor']
                  ELSE preview
  /\ UNCHANGED <<hist, isDrawing, currentSticker, stickers>>
  /\ render(strokes, redoStack)

\* the "click" listener createStickerButton installs for `emoji`
stickerButtonClick(emoji) ==
  /\ includes(stickers, emoji)
  /\ currentToolMode' = "sticker"
  /\ currentSticker' = emoji
  /\ UNCHANGED <<hist, isDrawing, preview, currentThickness, currentMarkerColor, stickers>>
  /\ render(strokes, redoStack)

\* customStickerButton "click", `text` being what prompt() returned
customStickerButtonClick(text) ==
  IF text = "null" \/ text = "" \/ includes(stickers, text)
    THEN UNCHANGED vars
    ELSE /\ stickers' = Append(stickers, text)
         /\ currentToolMode' = "sticker"
         /\ currentSticker' = text
         /\ UNCHANGED <<hist, isDrawing, preview, currentThickness, currentMarkerColor>>
         /\ render(strokes, redoStack)

\* the calls the exportButton "click" listener makes on exportCtx, in order:
\* scale(4, 4), then display for each element of strokes
exportCalls(s, c) ==
  <<[op |-> "scale", x |-> 4, y |-> 4]>>
  \o [k \in 1..Len(s) |-> [op |-> "display", cmd |-> c[s[k]]]]

\* exportButton "click": draws onto a canvas of its own, no program state changes
exportButtonClick == UNCHANGED vars

\* ------------------------------------------------------------------ Spec
Next ==
  \/ \E p \in DownPoints : mousedown(p)
  \/ mouseup
  \/ mouseleave
  \/ \E p \in MovePoints : mousemoveDrawing(p)
  \/ \E p \in HoverPoints : mousemoveHover(p)
  \/ undoButtonClick
  \/ redoButtonClick
  \/ clearButtonClick
  \/ \E hue \in Hues : thinToolButtonClick(hue)
  \/ \E hue \in Hues : thickToolButtonClick(hue)
  \/ \E emoji \in StickerInputs : stickerButtonClick(emoji)
  \/ \E text \in PromptTexts : customStickerButtonClick(text)
  \/ exportButtonClick

Spec == Init /\ [][Next]_vars

\* ------------------------------------------------------------ SpecTools
\* the same handlers with more tool inputs and fewer commands: two sticker
\* buttons pressed, and prompt() cancelled, left empty, answered with an
\* existing sticker and answered with a new one
MaxToolCmds == 1

ToolStickerInputs == {"sparkles", "palette"}

ToolPromptTexts == {"null", "", "sparkles", "mask"}

NextTools ==
  \/ \E p \in DownPoints : Len(cmds) < MaxToolCmds /\ mousedown(p)
  \/ mouseup
  \/ mouseleave
  \/ \E p \in MovePoints : mousemoveDrawing(p)
  \/ \E p \in HoverPoints : mousemoveHover(p)
  \/ undoButtonClick
  \/ redoButtonClick
  \/ clearButtonClick
  \/ \E hue \in Hues : thinToolButtonClick(hue)
  \/ \E hue \in Hues : thickToolButtonClick(hue)
  \/ \E emoji \in ToolStickerInputs : stickerButtonClick(emoji)
  \/ \E text \in ToolPromptTexts : customStickerButtonClick(text)
  \/ exportButtonClick

SpecTools == Init /\ [][NextTools]_vars

\* ================================================================ claims
\* the commands the two arrays refer to
Held == Elems(strokes) \cup Elems(redoStack)

\* command i was created and no array refers to it any more
Evicted(i) == i \in 1..Len(cmds) /\ i \notin Held

\* the command the pending drag created (0 when no drag is pending)
Live == IF isDrawing THEN Len(cmds) ELSE 0

canUndo == Len(strokes) > 0

canRedo == Len(redoStack) > 0

RECURSIVE undoN(_, _)
undoN(h, n) == IF n = 0 THEN h ELSE undoN(undoStep(h), n - 1)

RECURSIVE redoN(_, _)
redoN(h, n) == IF n = 0 THEN h ELSE redoN(redoStep(h), n - 1)

\* C1 -- undo/redo inverse law: whenever the history is committed = <C1..Cn>
\* with an empty redoStack, n undo steps followed by n redo steps give back
\* the same committed sequence, the same command contents and an empty
\* redoStack.
UndoRedoInverse ==
  redoStack = <<>> =>
    redoN(undoN(History, Len(strokes)), Len(strokes)) = History

\* three commands committed, none undone, and the three undo steps empty
\* committed into redoStack
UndoRedoInverse_Witness ==
  /\ Len(strokes) = 3
  /\ redoStack = <<>>
  /\ undoN(History, 3).strokes = <<>>
  /\ Len(undoN(History, 3).redoStack) = 3
  /\ \E i \in 1..3 : cmds[i].kind = "MarkerStroke" /\ Len(cmds[i].points) = 2

\* C2 -- new-action invalidation: every mousedown leaves redoStack empty,
\* and a redo right after it changes neither committed nor redoStack.
NewActionInvalidation ==
  [][(\E p \in DownPoints : mousedown(p)) =>
       /\ redoStack' = <<>>
       /\ redoStep(History)' = History']_vars

\* a drag begun while command 2 was undone: 2 is gone, 1 and 3 are committed
NewActionInvalidation_Witness ==
  /\ isDrawing
  /\ strokes = <<1, 3>>
  /\ redoStack = <<>>
  /\ cmds[2] = Freed

\* C3 -- permanent eviction: the commands redoStack holds at a mousedown, and
\* the commands either array holds at a clear, are in neither array
\* afterwards, and a command that is in neither array never enters one again.
PermanentEviction ==
  [][/\ \A i \in (1..Len(cmds)) \ Held : i \notin Held'
     /\ (\A i \in Elems(redoStack) : i \notin Held')
          \/ ~(\E p \in DownPoints : mousedown(p))
     /\ (\A i \in Held : i \notin Held') \/ ~clearButtonClick]_vars

\* command 2 was evicted by the mousedown that made command 3, and command 3
\* has itself been undone
PermanentEviction_Witness ==
  /\ strokes = <<1>>
  /\ redoStack = <<3>>
  /\ Evicted(2)

\* C4 -- immutability after sealing: the content of a command an array still
\* holds changes only in a mousemove of the drag that created it.
SealedImmutable ==
  [][\A i \in 1..Len(cmds) :
       (i \in Held' /\ cmds'[i] # cmds[i]) =>
         (i = Live /\ \E p \in MovePoints : mousemoveDrawing(p))]_vars

\* C5 -- no-op safety: undo on an empty committed, redo on an empty
\* redoStack, and mousemove or mouseup while no drag is pending leave both
\* arrays and every command's content unchanged.
NoOpSafety ==
  [][\/ UNCHANGED hist
     \/ ~ \/ undoButtonClick /\ ~canUndo
          \/ redoButtonClick /\ ~canRedo
          \/ (\E p \in HoverPoints : mousemoveHover(p)) /\ ~isDrawing
          \/ mouseup /\ ~isDrawing]_vars

\* nothing to undo or redo and no drag pending, after a hover move
NoOpSafety_Witness ==
  /\ ~canUndo
  /\ ~canRedo
  /\ ~isDrawing
  /\ preview # NoPreview

\* C6 -- history disjointness: no command is in both arrays, and none
\* occurs twice in either.
HistoryDisjoint ==
  /\ Elems(strokes) \cap Elems(redoStack) = {}
  /\ Cardinality(Elems(strokes)) = Len(strokes)
  /\ Cardinality(Elems(redoStack)) = Len(redoStack)

\* three commands made, the last one undone
HistoryDisjoint_Witness ==
  /\ Len(strokes) = 2
  /\ Len(redoStack) = 1

\* C7 -- conservation: an undo or redo step leaves
\* strokes.length + redoStack.length unchanged; the sum changes only in a
\* mousedown or a clear.
Conservation ==
  [][\/ Len(strokes') + Len(redoStack') = Len(strokes) + Len(redoStack)
     \/ /\ ~(undoButtonClick \/ redoButtonClick)
        /\ (\E p \in DownPoints : mousedown(p)) \/ clearButtonClick]_vars

\* one command committed and two in redoStack
Conservation_Witness ==
  /\ Len(strokes) = 1
  /\ Len(redoStack) = 2
  /\ undoDisabled = FALSE

\* C8 -- LIFO steps: an effective undo moves exactly the last element of
\* committed to the top (end) of redoStack, an effective redo moves exactly
\* the top of redoStack to the end of committed; from committed =
\* <C1,C2,C3> two undos give <C1> with redoStack <C3,C2>, and a redo then
\* gives <C1,C2>.
LifoSteps ==
  /\ [][/\ (undoButtonClick /\ canUndo) =>
             /\ strokes' = SubSeq(strokes, 1, Len(strokes) - 1)
             /\ redoStack' = Append(redoStack, strokes[Len(strokes)])
        /\ (redoButtonClick /\ canRedo) =>
             /\ redoStack' = SubSeq(redoStack, 1, Len(redoStack) - 1)
             /\ strokes' = Append(strokes, redoStack[Len(redoStack)])]_vars
  /\ [](Len(strokes) = 3 /\ redoStack = <<>> =>
          LET u == undoStep(undoStep(History))
              r == redoStep(u)
          IN /\ u.strokes = <<strokes[1]>>
             /\ u.redoStack = <<strokes[3], strokes[2]>>
             /\ r.strokes = <<strokes[1], strokes[2]>>
             /\ r.redoStack = <<strokes[3]>>)

\* three commands, the last two undone (3 first, then 2)
LifoSteps_Witness ==
  /\ strokes = <<1>>
  /\ redoStack = <<3, 2>>

\* C9 -- clear: from any state, clear leaves both arrays empty, canUndo and
\* canRedo false and both controls disabled.
ClearEmpties ==
  [][clearButtonClick =>
       /\ strokes' = <<>>
       /\ redoStack' = <<>>
       /\ ~canUndo'
       /\ ~canRedo'
       /\ undoDisabled'
       /\ redoDisabled']_vars

\* two commands made, both dropped by a clear pressed during a drag
ClearEmpties_Witness ==
  /\ Len(cmds) = 2
  /\ cmds[1] = Freed
  /\ cmds[2] = Freed
  /\ isDrawing
  /\ undoDisabled
  /\ redoDisabled

\* C10 -- UI enablement tracks history: in every state between handlers,
\* the initial one included, undo is disabled exactly when committed is
\* empty and redo exactly when redoStack is empty.
ButtonsTrackHistory ==
  /\ undoDisabled <=> ~canUndo
  /\ redoDisabled <=> ~canRedo

\* C11 -- render after every mutation: a handler that changes the arrays,
\* a command's content, the tool state or the preview leaves on the canvas
\* the frame of the state it ends in, so that once anything was rendered the
\* canvas shows the frame computed from the current state.
RenderAfterMutation ==
  /\ [][\/ frame' = renderCalls(strokes', cmds', isDrawing', preview')
        \/ <<hist, tool, preview>>' = <<hist, tool, preview>>]_vars
  /\ [](frame # <<>> => frame = renderCalls(strokes, cmds, isDrawing, preview))

\* a frame with a command and the preview on it
RenderAfterMutation_Witness ==
  /\ Len(frame) = 3
  /\ frame[2].op = "display"
  /\ frame[3].op = "draw"
  /\ currentToolMode = "sticker"

\* C12 -- render order: the canvas holds one clearRect, then one display per
\* element of strokes in index order, then the preview's draw exactly when
\* not drawing and a preview exists; nothing else, so no command of
\* redoStack.
RenderOrder ==
  frame # <<>> =>
    LET withPreview == ~isDrawing /\ preview # NoPreview
    IN /\ Len(frame) = 1 + Len(strokes) + (IF withPreview THEN 1 ELSE 0)
       /\ frame[1] = [op |-> "clearRect"]
       /\ \A k \in 1..Len(strokes) :
            frame[k + 1] = [op |-> "display", cmd |-> cmds[strokes[k]]]
       /\ withPreview => frame[Len(frame)] = [op |-> "draw", preview |-> preview]

\* two different commands and the preview drawn, one command undone
RenderOrder_Witness ==
  /\ Len(strokes) = 2
  /\ Len(redoStack) = 1
  /\ Len(frame) = 4
  /\ frame[2] # frame[3]
  /\ frame[4].op = "draw"

\* C13 -- preview discard and non-restoration: mousedown and mouseleave
\* leave the preview none, and a preview that is none becomes one only in a
\* mousemove while not drawing.
PreviewDiscard ==
  /\ [](~ENABLED (((\E p \in DownPoints : mousedown(p)) \/ mouseleave) /\ preview' # NoPreview))
  /\ [][\/ preview # NoPreview
        \/ preview' = NoPreview
        \/ (~isDrawing /\ \E p \in HoverPoints : mousemoveHover(p))]_vars

\* after a drag and a tool selection the preview is still none
PreviewDiscard_Witness ==
  /\ preview = NoPreview
  /\ ~isDrawing
  /\ Len(strokes) = 1
  /\ currentToolMode = "sticker"
  /\ cmds[1].kind = "MarkerStroke"

\* the preview is none or of the class the tool mode calls for
PreviewMatchesMode(pv, mode) ==
  \/ pv = NoPreview
  \/ pv.kind = (IF mode = "marker" THEN "MarkerPreview" ELSE "StickerPreview")

\* C14 -- tool-select discards a mismatched preview: after a click on Fine,
\* Bold, a sticker button or the custom sticker button, the preview is none
\* or of the class of the tool mode now active.
ToolSelectDiscardsMismatch ==
  [][\/ PreviewMatchesMode(preview', currentToolMode')
     \/ ~(\/ \E hue \in Hues : thinToolButtonClick(hue) \/ thickToolButtonClick(hue)
          \/ \E emoji \in StickerInputs : stickerButtonClick(emoji)
          \/ \E text \in PromptTexts : customStickerButtonClick(text))]_vars

\* C15 -- preview carries current tool parameters: a preview of the class of
\* the active tool mode has the current thickness and color (marker) or the
\* current sticker and font size (sticker).
PreviewCurrent ==
  (preview # NoPreview /\ PreviewMatchesMode(preview, currentToolMode)) =>
    IF preview.kind = "MarkerPreview"
      THEN preview.thickness = currentThickness /\ preview.color = currentMarkerColor
      ELSE preview.emoji = currentSticker /\ preview.fontPx = STICKER_FONT_PX

\* the elements of s other than the command of the pending drag, in order
Sealed(s) == SelectSeq(s, LAMBDA i : i # Live)

\* C16 -- export content: export draws the sealed commands of strokes in
\* index order and nothing else: no preview, no command still being dragged.
ExportSealedOnly ==
  exportCalls(strokes, cmds) =
    <<[op |-> "scale", x |-> 4, y |-> 4]>>
    \o [k \in 1..Len(Sealed(strokes)) |-> [op |-> "display", cmd |-> cmds[Sealed(strokes)[k]]]]

\* C17 -- totality: every event has a handler that runs to completion in
\* every reachable state (a handler that threw would have no successor
\* state), including mousemove while drawing with strokes empty and Undo and
\* Redo on empty arrays.
Totality ==
  /\ \A p \in DownPoints : Len(cmds) < MaxCmds => ENABLED mousedown(p)
  /\ ENABLED mouseup
  /\ ENABLED mouseleave
  /\ \A p \in MovePoints :
       (isDrawing /\ Samples(cmds) < MaxSamples) => ENABLED mousemoveDrawing(p)
  /\ \A p \in HoverPoints : ~isDrawing => ENABLED mousemoveHover(p)
  /\ ENABLED undoButtonClick
  /\ ENABLED redoButtonClick
  /\ ENABLED clearButtonClick
  /\ \A hue \in Hues : ENABLED thinToolButtonClick(hue) /\ ENABLED thickToolButtonClick(hue)
  /\ \A emoji \in StickerInputs : ENABLED stickerButtonClick(emoji)
  /\ \A text \in PromptTexts : ENABLED customStickerButtonClick(text)
  /\ ENABLED exportButtonClick

\* a drag is pending and both arrays are empty
Totality_Witness ==
  /\ isDrawing
  /\ strokes = <<>>
  /\ redoStack = <<>>
  /\ Len(cmds) > 0

\* C18 -- single-point stroke renders visibly: displaying a MarkerStroke of
\* one point gives beginPath, moveTo the point, lineTo the point offset by
\* 0.01, stroke; one of k >= 2 points gives moveTo the first point and one
\* lineTo per later point, k-1 in all, none of them offset.
SinglePointVisible ==
  \A k \in 1..Len(strokes) :
    LET c == cmds[strokes[k]]
    IN c.kind = "MarkerStroke" =>
         LET d == display(c)
             n == Len(c.points)
             path == SubSeq(d, 4, Len(d))
             at(op, q, off) == [op |-> op, x |-> 100 * q[1] + off, y |-> 100 * q[2] + off]
         IN /\ d # <<>>
            /\ n = 1 =>
                 path = <<[op |-> "beginPath"], at("moveTo", c.points[1], 0),
                          at("lineTo", c.points[1], 1), [op |-> "stroke"]>>
            /\ n >= 2 =>
                 /\ Len(path) = n + 2
                 /\ path[1] = [op |-> "beginPath"]
                 /\ path[2] = at("moveTo", c.points[1], 0)
                 /\ \A j \in 2..n : path[j + 1] = at("lineTo", c.points[j], 0)
                 /\ path[n + 2] = [op |-> "stroke"]

\* a stroke of one point and a stroke of two points on the canvas
SinglePointVisible_Witness ==
  /\ Len(strokes) = 2
  /\ Len(frame) >= 3
  /\ cmds[strokes[1]].kind = "MarkerStroke"
  /\ cmds[strokes[2]].kind = "MarkerStroke"
  /\ Len(cmds[strokes[1]].points) = 1
  /\ Len(cmds[strokes[2]].points) = 2

\* C19 -- extend targets the live command by its own variant: while drawing,
\* mousemove(p) changes the command its mousedown created, and only that
\* one: p appended if it is a MarkerStroke, its center set to p if it is a
\* StickerCommand, whatever tool was selected or undone since.
ExtendTargetsLive ==
  (isDrawing /\ Live \in Held) =>
    \A p \in MovePoints :
      extendStep(History, p).cmds =
        [cmds EXCEPT ![Live] = IF @.kind = "MarkerStroke" THEN drag(@, p) ELSE setPosition(@, p)]

\* the longest drag whose result is computed
MaxDrag == 2

\* positions of the samples of a drag
DragSamples == {<<20, 20>>, <<30, 30>>}

\* the sample sequences of a drag, up to MaxDrag samples
DragRuns == UNION {[1..n -> DragSamples] : n \in 0..MaxDrag}

\* mousemove while drawing, once per sample of ps
RECURSIVE extendAll(_, _)
extendAll(h, ps) ==
  IF ps = <<>> THEN h ELSE extendAll(extendStep(h, Head(ps)), Tail(ps))

\* C20 -- uninterrupted drag result: mousedown(p0), mousemove(p1..pk) and
\* mouseup with nothing in between append one command to strokes, a
\* MarkerStroke of points p0,p1,..,pk with the current thickness and color
\* in marker mode, a StickerCommand centred at pk (p0 when k = 0) in sticker
\* mode; the earlier elements of strokes are unchanged.
UninterruptedDrag ==
  /\ [](\A p0 \in DownPoints : \A ps \in DragRuns :
          LET h == extendAll(beginStep(History, p0), ps)
              id == Len(cmds) + 1
          IN /\ h.strokes = Append(strokes, id)
             /\ \A k \in 1..Len(strokes) : h.cmds[strokes[k]] = cmds[strokes[k]]
             /\ h.cmds[id] =
                  IF currentToolMode = "marker"
                    THEN [kind |-> "MarkerStroke", points |-> <<p0>> \o ps,
                          thickness |-> currentThickness, color |-> currentMarkerColor]
                    ELSE [kind |-> "StickerCommand",
                          center |-> IF ps = <<>> THEN p0 ELSE ps[Len(ps)],
                          emoji |-> currentSticker, fontPx |-> STICKER_FONT_PX])
  /\ [][hist' = hist \/ ~mouseup]_vars

\* the stroke of the drag (10,10), (20,20), sealed
UninterruptedDrag_Witness ==
  /\ ~isDrawing
  /\ Len(cmds) = 1
  /\ strokes = <<1>>
  /\ cmds[1].kind = "MarkerStroke"
  /\ cmds[1].points = <<<<10, 10>>, <<20, 20>>>>

\* the commands of both arrays from the bottom of strokes to its top and on
\* from the top of redoStack to its bottom
Timeline == strokes \o [k \in 1..Len(redoStack) |-> redoStack[Len(redoStack) + 1 - k]]

\* C21 -- chronological order: strokes holds its commands oldest first, the
\* top of redoStack is the oldest command redoStack holds, and every command
\* of redoStack was created after every command of strokes (commands are
\* numbered in creation order), so a redo appends the command that comes
\* next in creation order.
ChronologicalOrder ==
  /\ \A i, j \in 1..Len(Timeline) : i < j => Timeline[i] < Timeline[j]
  /\ canRedo =>
       LET r == redoStep(History)
       IN \A k \in 1..(Len(r.strokes) - 1) : r.strokes[k] < r.strokes[Len(r.strokes)]

\* one command drawn and two later ones undone
ChronologicalOrder_Witness ==
  /\ Len(strokes) = 1
  /\ Len(redoStack) = 2
  /\ redoStack[2] < redoStack[1]

\* a command's class and the parameters its constructor takes from the tool
\* state
Params(c) ==
  IF c.kind = "MarkerStroke"
    THEN <<c.kind, c.thickness, c.color>>
    ELSE <<c.kind, c.emoji, c.fontPx>>

\* the class and parameters the tool state calls for
ToolParams ==
  IF currentToolMode = "marker"
    THEN <<"MarkerStroke", currentThickness, currentMarkerColor>>
    ELSE <<"StickerCommand", currentSticker, STICKER_FONT_PX>>

\* C22 -- tool parameters are frozen at begin: a command is created with
\* the class and parameters of the tool state at its mousedown, and as long
\* as an array holds it no later step changes them: not a tool selection,
\* during the drag or after, and not an undo or a redo.
ParamsFrozen ==
  [][\A i \in 1..Len(cmds') :
       IF i > Len(cmds)
         THEN Params(cmds'[i]) = ToolParams
         ELSE (cmds[i] # Freed /\ cmds'[i] # Freed) => Params(cmds'[i]) = Params(cmds[i])]_vars

\* a drag pending whose stroke was begun under another tool setting than the
\* one now selected, the thickness now THICK
ParamsFrozen_Witness ==
  /\ isDrawing
  /\ Live \in Held
  /\ Params(cmds[Live]) # ToolParams
  /\ currentThickness = THICK
  /\ cmds[Live].kind = "MarkerStroke"

\* C23 -- seal frame: mouseup and mouseleave leave strokes, redoStack, every
\* command and the tool state as they were; mouseup only clears isDrawing,
\* mouseleave clears isDrawing and sets the preview to none.
SealFrame ==
  /\ ~ENABLED (mouseup /\ ~(/\ hist' = hist
                             /\ tool' = tool
                             /\ preview' = preview
                             /\ isDrawing' = FALSE))
  /\ ~ENABLED (mouseleave /\ ~(/\ hist' = hist
                                /\ tool' = tool
                                /\ preview' = NoPreview
                                /\ isDrawing' = FALSE))

\* a second drag sealed (no mousedown since) after a tool change during it:
\* both commands and the tool state are as the drag left them
SealFrame_Witness ==
  /\ ~isDrawing
  /\ preview = NoPreview
  /\ Len(cmds) = 2
  /\ Len(strokes) = 2
  /\ cmds[strokes[2]].kind = "MarkerStroke"
  /\ Len(cmds[strokes[2]].points) = 2
  /\ currentToolMode = "sticker"

\* a step of a handler that is not a tool selection
NonToolStep ==
  \/ \E p \in DownPoints : mousedown(p)
  \/ mouseup
  \/ mouseleave
  \/ \E p \in MovePoints : mousemoveDrawing(p)
  \/ \E p \in HoverPoints : mousemoveHover(p)
  \/ undoButtonClick
  \/ redoButtonClick
  \/ clearButtonClick
  \/ exportButtonClick

\* a step of a tool-selection handler
ToolSelectStep ==
  \/ \E hue \in Hues : thinToolButtonClick(hue) \/ thickToolButtonClick(hue)
  \/ \E emoji \in StickerInputs : stickerButtonClick(emoji)
  \/ \E text \in PromptTexts : customStickerButtonClick(text)

\* C24 -- tool state frame: mode, thickness, color, sticker and the sticker
\* list change only in the tool-selection handlers; the canvas handlers,
\* Undo, Redo, Clear and Export leave them unchanged, and the tool-selection
\* handlers leave strokes, redoStack and every command unchanged.
ToolStateFrame ==
  /\ ~ENABLED (NonToolStep /\ tool' # tool)
  /\ ~ENABLED (ToolSelectStep /\ hist' # hist)

\* the tool changed from its initial state with commands in both arrays
ToolStateFrame_Witness ==
  /\ currentToolMode = "sticker"
  /\ currentThickness = THICK
  /\ Len(strokes) = 1
  /\ Len(redoStack) = 1
  /\ cmds[strokes[1]].kind = "MarkerStroke"
  /\ cmds[strokes[1]].thickness = THIN

\* C25 -- duplicate sticker selection is an idempotent assignment: selecting
\* a sticker g that is already in stickers, by its button or by entering g
\* at the custom sticker prompt, gives currentToolMode = "sticker" and
\* currentSticker = g.
DuplicateStickerSelect ==
  \A g \in StickerInputs \cup PromptTexts :
    includes(stickers, g) =>
      /\ ~ENABLED (stickerButtonClick(g)
                   /\ ~(currentToolMode' = "sticker" /\ currentSticker' = g))
      /\ ~ENABLED (customStickerButtonClick(g)
                   /\ ~(currentToolMode' = "sticker" /\ currentSticker' = g))

\* C26 -- implicit invariant: while isDrawing is set the preview is none,
\* whatever tool selection, Undo, Redo or Clear happens during the drag.
NoPreviewWhileDrawing == isDrawing => preview = NoPreview

\* a drag begun over a preview, with a tool selection and an undo during it
NoPreviewWhileDrawing_Witness ==
  /\ isDrawing
  /\ preview = NoPreview
  /\ Len(frame) = 1
  /\ currentToolMode = "sticker"
  /\ Len(redoStack) = 1
  /\ cmds[redoStack[1]].kind = "MarkerStroke"

====
